---- MODULE Spec2Model ----
(***************************************************************************)
(* Model of invariant_point_attention.py: the InvariantPointAttention      *)
(* module (its constructor and its forward pass).                          *)
(*                                                                         *)
(* Two specifications share the constructor:                               *)
(*   SpecShapes  the constructor and forward at the level of tensor        *)
(*               shapes: which statement raises, which stages ran before   *)
(*               it, and the shape that is returned;                       *)
(*   Spec        the constructor and forward on tensor values, with        *)
(*               integers for the inputs and parameters, fixed-point       *)
(*               logits and exact rationals after the softmax.             *)
(***************************************************************************)
EXTENDS Integers, Sequences, FiniteSets

VARIABLES
    cfg,      \* keyword arguments handed to __init__
    module,   \* the InvariantPointAttention object: NotConstructed, raised, or its attributes
    args,     \* arguments of the forward call
    ret       \* outcome of the forward call: NoCall, or what forward raised / returned

vars == <<cfg, module, args, ret>>

\* ------------------------------------------------------------------ bounds

MaxBatch == 2
MaxEntities == 2
MaxHeads == 2
MaxWidth == 2

\* ----------------------------------------------------------------- helpers

\* An optional value is a sequence of at most one element: <<>> is Python's
\* None and <<v>> the value v.
None == <<>>

Some(v) == <<v>>

exists(val) == val # None

default(val, d) == IF exists(val) THEN val[1] ELSE d

Max2(a, b) == IF a >= b THEN a ELSE b

\* ------------------------------------------------------------- constructor

\* nn.Linear(in_features, out_features) allocates a weight of shape
\* (out_features, in_features): a negative size raises, a zero size does not.
LinearRaises(in_features, out_features) == in_features < 0 \/ out_features < 0

\* x ** -0.5 on a Python number: zero raises ZeroDivisionError, a negative
\* base gives a complex number and raises nothing.
InvSqrtRaises(x) == x = 0

\* The line of __init__ that raises for the keyword arguments c, 0 when the
\* constructor returns.
InitRaisesAt(c) ==
    LET prd == default(c.pairwise_repr_dim, c.dim) IN
    IF InvSqrtRaises(3 * c.scalar_key_dim) THEN 46
    ELSE IF LinearRaises(c.dim, c.scalar_key_dim * c.heads) THEN 48
    ELSE IF LinearRaises(c.dim, c.scalar_value_dim * c.heads) THEN 50
    ELSE IF c.heads < 0 THEN 54
    ELSE IF InvSqrtRaises(3 * c.point_key_dim) THEN 57
    ELSE IF LinearRaises(c.dim, c.point_key_dim * c.heads * 3) THEN 59
    ELSE IF LinearRaises(c.dim, c.point_value_dim * c.heads * 3) THEN 61
    ELSE IF LinearRaises(prd, c.heads) THEN 70
    ELSE IF LinearRaises((c.scalar_value_dim * c.heads) + (prd * c.heads)
                           + (c.point_value_dim * c.heads * 3), c.dim) THEN 76
    ELSE 0

\* ------------------------------------------------------ forward, on shapes

\* Two sizes of one axis that torch broadcasts, and the size they give.
Broadcastable(a, b) == a = b \/ a = 1 \/ b = 1

BroadcastSize(a, b) == IF a = 1 THEN b ELSE a

BroadcastableShapes(s, t) ==
    Len(s) = Len(t) /\ \A k \in 1..Len(s) : Broadcastable(s[k], t[k])

BroadcastShapes(s, t) == [k \in 1..Len(s) |-> BroadcastSize(s[k], t[k])]

\* Shapes of the intermediate tensors of forward, for a module m and inputs
\* of shapes xs (single_repr), ps (pairwise_repr) and ms (mask, or None).
ShapeAttnLogitsScalar(m, xs) == <<xs[1] * m.heads, xs[2], xs[2]>>

ShapeAttnLogitsPairwise(m, ps) == <<ps[1] * m.heads, ps[2], ps[3]>>

ShapeAttnLogitsPoints(m, xs) == <<xs[1] * m.heads, xs[2], xs[2]>>

ShapeAttnLogits(m, xs, ps) ==
    BroadcastShapes(BroadcastShapes(ShapeAttnLogitsScalar(m, xs),
                                    ShapeAttnLogitsPairwise(m, ps)),
                    ShapeAttnLogitsPoints(m, xs))

ShapeMask(ms) == <<ms[1], ms[2], ms[2]>>

\* attn_logits.masked_fill(~mask, mask_value) broadcasts the tensor and the
\* mask to their common shape; the softmax keeps that shape.
ShapeAttn(m, xs, ps, ms) ==
    IF exists(ms)
    THEN BroadcastShapes(ShapeAttnLogits(m, xs, ps), ShapeMask(ms[1]))
    ELSE ShapeAttnLogits(m, xs, ps)

ShapeResultsScalar(m, xs, ps, ms) ==
    LET attn == ShapeAttn(m, xs, ps, ms) IN
    <<BroadcastSize(attn[1], xs[1] * m.heads), attn[2], m.scalar_value_dim>>

ShapeResultsPairwise(m, xs, ps, ms) ==
    LET attn == ShapeAttn(m, xs, ps, ms) IN
    <<BroadcastSize(attn[1] \div m.heads, ps[1]), m.heads,
      BroadcastSize(attn[2], ps[2]), ps[4]>>

ShapeResultsPoints(m, xs, ps, ms) ==
    LET attn == ShapeAttn(m, xs, ps, ms) IN
    <<BroadcastSize(attn[1], xs[1] * m.heads), attn[2], m.point_value_dim, 3>>

ShapeMergedScalar(m, xs, ps, ms) ==
    LET r == ShapeResultsScalar(m, xs, ps, ms) IN
    <<r[1] \div m.heads, r[2], m.heads * r[3]>>

ShapeMergedPairwise(m, xs, ps, ms) ==
    LET r == ShapeResultsPairwise(m, xs, ps, ms) IN
    <<r[1], r[3], r[2] * r[4]>>

ShapeMergedPoints(m, xs, ps, ms) ==
    LET r == ShapeResultsPoints(m, xs, ps, ms) IN
    <<r[1] \div m.heads, r[2], m.heads * r[3] * r[4]>>

ShapeResults(m, xs, ps, ms) ==
    LET s == ShapeMergedScalar(m, xs, ps, ms)
        p == ShapeMergedPairwise(m, xs, ps, ms)
        t == ShapeMergedPoints(m, xs, ps, ms)
    IN  <<s[1], s[2], s[3] + p[3] + t[3]>>

ShapeOut(m, xs, ps, ms) ==
    LET r == ShapeResults(m, xs, ps, ms) IN <<r[1], r[2], m.dim>>

\* The line of forward that raises, 0 when forward returns.
ForwardRaisesAt(m, xs, ps, ms) ==
    IF xs[3] # m.dim THEN 91
    ELSE IF m.heads = 0 THEN 97
    ELSE IF ps[4] # m.pairwise_repr_dim THEN 103
    ELSE IF ~BroadcastableShapes(ShapeAttnLogitsScalar(m, xs),
                                 ShapeAttnLogitsPairwise(m, ps)) THEN 117
    ELSE IF exists(ms) /\ ~BroadcastableShapes(ShapeAttnLogits(m, xs, ps),
                                               ShapeMask(ms[1]))
         THEN 124
    ELSE LET attn == ShapeAttn(m, xs, ps, ms)
             s == ShapeMergedScalar(m, xs, ps, ms)
             p == ShapeMergedPairwise(m, xs, ps, ms)
             t == ShapeMergedPoints(m, xs, ps, ms)
         IN  IF ~(Broadcastable(attn[1], xs[1] * m.heads)
                    /\ Broadcastable(attn[3], xs[2])) THEN 132
             ELSE IF attn[1] % m.heads # 0 THEN 134
             ELSE IF ~(Broadcastable(attn[1] \div m.heads, ps[1])
                         /\ Broadcastable(attn[2], ps[2])
                         /\ Broadcastable(attn[3], ps[3])) THEN 135
             ELSE IF ~(s[1] = p[1] /\ s[2] = p[2] /\ s[1] = t[1] /\ s[2] = t[2])
                  THEN 147
             ELSE IF s[3] + p[3] + t[3] #
                       (m.scalar_value_dim * m.heads)
                         + (m.pairwise_repr_dim * m.heads)
                         + (m.point_value_dim * m.heads * 3) THEN 148
             ELSE 0

\* The stages of forward with the line each ends at.
Stages ==
    { <<"projection", 93>>, <<"split_heads", 98>>, <<"scalar_logits", 102>>,
      <<"pairwise_logits", 103>>, <<"point_logits", 113>>, <<"combine", 117>>,
      <<"mask", 124>>, <<"softmax", 128>>, <<"aggregate", 139>>,
      <<"merge_heads", 145>>, <<"project_out", 148>> }

\* The stages that ran to their end when forward raised at `line` (0: none
\* raised); the mask stage runs only for a call with a mask.
StagesRun(line, ms) ==
    { s[1] : s \in { t \in Stages : (line = 0 \/ t[2] < line)
                                      /\ (t[1] = "mask" => exists(ms)) } }

ForwardOutcome(m, xs, ps, ms) ==
    LET line == ForwardRaisesAt(m, xs, ps, ms) IN
    [ status |-> IF line = 0 THEN "returned" ELSE "raised",
      line   |-> line,
      stages |-> StagesRun(line, ms),
      shape  |-> IF line = 0 THEN ShapeOut(m, xs, ps, ms) ELSE <<>> ]

\* ------------------------------------------------------------- arithmetic

\* Floating-point numbers are modelled exactly where the code only adds and
\* multiplies (integers), in fixed point with FixOne units to 1.0 where it
\* scales the logits, and as exact rationals [n, d] in lowest terms after
\* the softmax.
FixOne == 1024

\* 1.0 in the units of the values of exp.
ExpOne == 4096

\* torch.finfo(dtype).max, in fixed-point units.
FloatMax == 1000000000

Idx(n) == 0..(n - 1)

RECURSIVE SumTo(_, _)
\* f[0] + ... + f[n - 1]
SumTo(f, n) == IF n <= 0 THEN 0 ELSE f[n - 1] + SumTo(f, n - 1)

RECURSIVE MaxTo(_, _)
\* the largest of f[0], ..., f[n - 1], for n >= 1
MaxTo(f, n) == IF n <= 1 THEN f[0] ELSE Max2(f[n - 1], MaxTo(f, n - 1))

RECURSIVE Pow2(_)
Pow2(k) == IF k <= 0 THEN 1 ELSE 2 * Pow2(k - 1)

Abs(a) == IF a < 0 THEN -a ELSE a

RECURSIVE GCD(_, _)
GCD(a, b) == IF b = 0 THEN a ELSE GCD(b, a % b)

\* The rational n / d in lowest terms with d > 0; 0 / 0 (NaN) for d = 0.
Rat(n, d) ==
    IF d = 0 THEN [n |-> 0, d |-> 0]
    ELSE LET g == GCD(Abs(n), Abs(d))
             sgn == IF d < 0 THEN -1 ELSE 1
         IN  [n |-> sgn * (n \div g), d |-> sgn * (d \div g)]

RatOfInt(k) == [n |-> k, d |-> 1]

RatAdd(a, b) ==
    IF a.d = 0 \/ b.d = 0 THEN Rat(0, 0)
    ELSE LET g == GCD(a.d, b.d)
         IN  Rat(a.n * (b.d \div g) + b.n * (a.d \div g), (a.d \div g) * b.d)

\* a times the integer k
RatScale(a, k) == Rat(a.n * k, a.d)

RECURSIVE RatSumTo(_, _)
\* f[0] + ... + f[n - 1] for rationals
RatSumTo(f, n) ==
    IF n <= 0 THEN RatOfInt(0) ELSE RatAdd(f[n - 1], RatSumTo(f, n - 1))

RECURSIVE IsqrtIn(_, _, _)
\* floor(sqrt(n)), given lo * lo <= n < hi * hi
IsqrtIn(n, lo, hi) ==
    IF hi - lo <= 1 THEN lo
    ELSE LET mid == (lo + hi) \div 2
         IN  IF mid * mid <= n THEN IsqrtIn(n, mid, hi) ELSE IsqrtIn(n, lo, mid)

Isqrt(n) == IsqrtIn(n, 0, 46341)

\* The number (n / d) ** -0.5, kept as its radicand.
InvSqrt(n, d) == [n |-> n, d |-> d]

\* x * s for an integer x and s = (n / d) ** -0.5, rounded to the nearest
\* fixed-point unit: round(FixOne * x * (n / d) ** -0.5).
TimesInvSqrt(x, s) ==
    LET r == (Isqrt((4 * FixOne * FixOne * x * x * s.d) \div s.n) + 1) \div 2
    IN  IF x < 0 THEN -r ELSE r

\* round(FixOne * (n / d) ** -0.5): the fixed-point value of the scale
\* (n / d) ** -0.5, for n, d > 0.
InvSqrtFix(n, d) == TimesInvSqrt(1, InvSqrt(n, d))

\* F.softplus in base 2, rounded up to an integer: ceil(log2(1 + 2 ** w)).
softplus(w) == IF w >= 0 THEN w + 1 ELSE 1

\* e ** -a for a = 0 .. 9, e ** (-b / 32) and e ** (-c / 1024) for b, c =
\* 0 .. 31, each rounded to the nearest multiple of 1 / 32768.
ExpWhole ==
    << 32768, 12055, 4435, 1631, 600, 221, 81, 30,
       11, 4 >>

ExpOf32nds ==
    << 32768, 31760, 30783, 29836, 28918, 28028, 27166, 26330,
       25520, 24735, 23974, 23236, 22521, 21828, 21157, 20506,
       19875, 19263, 18671, 18096, 17539, 17000, 16477, 15970,
       15479, 15002, 14541, 14093, 13660, 13239, 12832, 12437 >>

ExpOf1024ths ==
    << 32768, 32736, 32704, 32672, 32640, 32608, 32577, 32545,
       32513, 32481, 32450, 32418, 32386, 32355, 32323, 32291,
       32260, 32228, 32197, 32166, 32134, 32103, 32072, 32040,
       32009, 31978, 31946, 31915, 31884, 31853, 31822, 31791 >>

\* exp of a logit x <= 0 (the softmax subtracts the maximum of the row), in
\* units of 1 / ExpOne: e ** (x / FixOne) as the product of the three tables,
\* rounded; 0 below e ** -9 and at the mask value.
exp(x) ==
    LET k == -x
        a == k \div FixOne
        b == (k % FixOne) \div 32
        c == k % 32
    IN  IF a >= Len(ExpWhole) THEN 0
        ELSE LET ab == (ExpWhole[a + 1] * ExpOf32nds[b + 1] + 16384) \div 32768
             IN  (ab * ExpOf1024ths[c + 1] + 131072) \div 262144

\* ----------------------------------------------------------------- tensors

\* A tensor is its shape and its elements, a function of the index tuples
\* (0-based).
Tensor(shape, at) == [shape |-> shape, at |-> at]

Indices(shape) ==
    IF Len(shape) = 1 THEN { <<i>> : i \in Idx(shape[1]) }
    ELSE IF Len(shape) = 2 THEN Idx(shape[1]) \X Idx(shape[2])
    ELSE IF Len(shape) = 3 THEN Idx(shape[1]) \X Idx(shape[2]) \X Idx(shape[3])
    ELSE IF Len(shape) = 4
         THEN Idx(shape[1]) \X Idx(shape[2]) \X Idx(shape[3]) \X Idx(shape[4])
    ELSE Idx(shape[1]) \X Idx(shape[2]) \X Idx(shape[3]) \X Idx(shape[4])
           \X Idx(shape[5])

\* The element of t that broadcasting puts at idx: an axis of size 1 is
\* read at 0.
BroadcastAt(t, idx) ==
    t.at[[k \in 1..Len(idx) |-> IF t.shape[k] = 1 THEN 0 ELSE idx[k]]]

\* The entries of the nn.Linear parameters drawn with the module's seed:
\* weight[o][f] and bias[o] of the layer numbered `layer`.
LayerNo(name) ==
    CASE name = "to_scalar_q" -> 1 [] name = "to_scalar_k" -> 2
      [] name = "to_scalar_v" -> 3 [] name = "to_point_q" -> 4
      [] name = "to_point_k" -> 5 [] name = "to_point_v" -> 6
      [] name = "to_pairwise_attn_bias" -> 7 [] name = "to_out" -> 8

Weight(m, name, o, f) ==
    ((m.seed + LayerNo(name) + 2 * o + f + LayerNo(name) * o * f
        + (o \div 3) + (o \div 2) * (f + 1)) % 3) - 1

Bias(m, name, o) == ((m.seed + LayerNo(name) + 2 * o + (o \div 2)) % 3) - 1

\* nn.Linear(in_features, out_features, bias = False) applied to t
LinearNoBias(m, name, t, out_features) ==
    LET r == Len(t.shape)
        shape == [t.shape EXCEPT ![r] = out_features]
    IN  Tensor(shape,
               [idx \in Indices(shape) |->
                   SumTo([f \in Idx(t.shape[r]) |->
                             t.at[[idx EXCEPT ![r] = f]] * Weight(m, name, idx[r], f)],
                         t.shape[r])])

\* nn.Linear(in_features, out_features) applied to t
Linear(m, name, t, out_features) ==
    LET y == LinearNoBias(m, name, t, out_features)
    IN  Tensor(y.shape,
               [idx \in Indices(y.shape) |-> y.at[idx] + Bias(m, name, idx[Len(idx)])])

\* ------------------------------------------------------ forward, on values

\* The scales __init__ sets, in fixed point.
scalar_attn_logits_scale(m) == InvSqrt(3 * m.scalar_key_dim, 1)

point_attn_logits_scale(m) == InvSqrt((3 * m.point_key_dim) * 9, 2)

pairwise_attn_logits_scale == InvSqrt(3, 1)

\* SplitHeads as a plain reshape t.reshape(b * h, n, d), which keeps the
\* order of the elements in memory instead of moving the head axis.
SplitHeadsReshape(t, h) ==
    LET d == t.shape[3] \div h
        n == t.shape[2]
        shape == <<t.shape[1] * h, n, d>>
        flat(idx) == (idx[1] * n + idx[2]) * d + idx[3]
    IN  Tensor(shape,
               [idx \in Indices(shape) |->
                   t.at[<<flat(idx) \div (n * h * d),
                          (flat(idx) \div (h * d)) % n,
                          flat(idx) % (h * d)>>]])

\* rearrange(t, 'b n (h d) -> (b h) n d', h = h)
SplitHeads(t, h) ==
    LET d == t.shape[3] \div h
        shape == <<t.shape[1] * h, t.shape[2], d>>
    IN  Tensor(shape,
               [idx \in Indices(shape) |->
                   t.at[<<idx[1] \div h, idx[2], (idx[1] % h) * d + idx[3]>>]])

\* rearrange(t, 'b n (h d c) -> (b h) n d c', h = h, c = 3)
SplitHeadsPoints(t, h) ==
    LET d == t.shape[3] \div (h * 3)
        shape == <<t.shape[1] * h, t.shape[2], d, 3>>
    IN  Tensor(shape,
               [idx \in Indices(shape) |->
                   t.at[<<idx[1] \div h, idx[2],
                          ((idx[1] % h) * d + idx[3]) * 3 + idx[4]>>]])

\* FoldHeads with the pattern 'b ... h -> (h b) ...': head-major rows.
FoldHeadsHeadMajor(t) ==
    LET h == t.shape[4]
        b == t.shape[1]
        shape == <<b * h, t.shape[2], t.shape[3]>>
    IN  Tensor(shape,
               [idx \in Indices(shape) |->
                   t.at[<<idx[1] % b, idx[2], idx[3], idx[1] \div b>>]])

\* Rearrange('b ... h -> (b h) ...') on a tensor of shape (b, i, j, h)
FoldHeads(t) ==
    LET h == t.shape[4]
        shape == <<t.shape[1] * h, t.shape[2], t.shape[3]>>
    IN  Tensor(shape,
               [idx \in Indices(shape) |->
                   t.at[<<idx[1] \div h, idx[2], idx[3], idx[1] % h>>]])

q_scalar(m, a) ==
    SplitHeads(LinearNoBias(m, "to_scalar_q", a.single_repr,
                            m.scalar_key_dim * m.heads), m.heads)

k_scalar(m, a) ==
    SplitHeads(LinearNoBias(m, "to_scalar_k", a.single_repr,
                            m.scalar_key_dim * m.heads), m.heads)

v_scalar(m, a) ==
    SplitHeads(LinearNoBias(m, "to_scalar_v", a.single_repr,
                            m.scalar_value_dim * m.heads), m.heads)

\* The frame transforms, which forward never calls.
apply_transform(x, rot, trans) == x

apply_inverse_transform(x, rot, trans) == x

\* q_point with each query's points moved into the global frame of its
\* entity: rotation . point + translation.
q_point_global(m, a) ==
    LET q == SplitHeadsPoints(LinearNoBias(m, "to_point_q", a.single_repr,
                                           m.point_key_dim * m.heads * 3), m.heads)
    IN  Tensor(q.shape,
               [idx \in Indices(q.shape) |->
                   SumTo([r \in Idx(3) |->
                             a.rotations.at[<<idx[1] \div m.heads, idx[2], idx[4], r>>]
                               * q.at[<<idx[1], idx[2], idx[3], r>>]], 3)
                     + a.translations.at[<<idx[1] \div m.heads, idx[2], idx[4]>>]])

q_point(m, a) ==
    SplitHeadsPoints(LinearNoBias(m, "to_point_q", a.single_repr,
                                  m.point_key_dim * m.heads * 3), m.heads)

k_point(m, a) ==
    SplitHeadsPoints(LinearNoBias(m, "to_point_k", a.single_repr,
                                  m.point_key_dim * m.heads * 3), m.heads)

v_point(m, a) ==
    SplitHeadsPoints(LinearNoBias(m, "to_point_v", a.single_repr,
                                  m.point_value_dim * m.heads * 3), m.heads)

\* einsum('b i d, b j d -> b i j', q, k) * self.scalar_attn_logits_scale
attn_logits_scalar(m, q, k) ==
    LET shape == <<q.shape[1], q.shape[2], k.shape[2]>>
    IN  Tensor(shape,
               [idx \in Indices(shape) |->
                   TimesInvSqrt(
                       SumTo([d \in Idx(q.shape[3]) |->
                                 q.at[<<idx[1], idx[2], d>>] * k.at[<<idx[1], idx[3], d>>]],
                             q.shape[3]),
                       scalar_attn_logits_scale(m))])

\* self.to_pairwise_attn_bias(pairwise_repr) * self.pairwise_attn_logits_scale
attn_logits_pairwise(m, a) ==
    LET bias == FoldHeads(Linear(m, "to_pairwise_attn_bias", a.pairwise_repr, m.heads))
    IN  Tensor(bias.shape,
               [idx \in Indices(bias.shape) |->
                   TimesInvSqrt(bias.at[idx], pairwise_attn_logits_scale)])

\* rearrange(q, 'b i d c -> b i () d c') - rearrange(k, 'b j d c -> b () j d c')
point_qk_diff(q, k) ==
    LET shape == <<q.shape[1], q.shape[2], k.shape[2], q.shape[3], q.shape[4]>>
    IN  Tensor(shape,
               [idx \in Indices(shape) |->
                   q.at[<<idx[1], idx[2], idx[4], idx[5]>>]
                     - k.at[<<idx[1], idx[3], idx[4], idx[5]>>]])

\* (point_qk_diff ** 2).sum(dim = -2)
point_dist(diff) ==
    LET shape == <<diff.shape[1], diff.shape[2], diff.shape[3], diff.shape[5]>>
    IN  Tensor(shape,
               [idx \in Indices(shape) |->
                   SumTo([d \in Idx(diff.shape[4]) |->
                             diff.at[<<idx[1], idx[2], idx[3], d, idx[4]>>]
                               * diff.at[<<idx[1], idx[2], idx[3], d, idx[4]>>]],
                         diff.shape[4])])

\* repeat(F.softplus(self.point_weights), 'h -> (b h) () () ()', b = b)
point_weights(m, b) ==
    LET shape == <<b * m.heads, 1, 1, 1>>
    IN  Tensor(shape,
               [idx \in Indices(shape) |-> softplus(m.point_weights[idx[1] % m.heads])])

\* -0.5 * (point_dist * point_weights).sum(dim = -1), in fixed point
attn_logits_points(dist, weights) ==
    LET shape == <<dist.shape[1], dist.shape[2], dist.shape[3]>>
    IN  Tensor(shape,
               [idx \in Indices(shape) |->
                   -((FixOne
                       * SumTo([c \in Idx(dist.shape[4]) |->
                                   dist.at[<<idx[1], idx[2], idx[3], c>>]
                                     * BroadcastAt(weights,
                                                   <<idx[1], idx[2], idx[3], c>>)],
                               dist.shape[4])) \div 2)])

\* t + u with broadcasting
Add(t, u) ==
    LET shape == BroadcastShapes(t.shape, u.shape)
    IN  Tensor(shape,
               [idx \in Indices(shape) |-> BroadcastAt(t, idx) + BroadcastAt(u, idx)])

\* MaskPairs with both factors rearranged 'b i -> b i ()': the key's validity
\* is never looked at.
MaskPairsQueryOnly(mask) ==
    LET shape == <<mask.shape[1], mask.shape[2], mask.shape[2]>>
    IN  Tensor(shape,
               [idx \in Indices(shape) |->
                   mask.at[<<idx[1], idx[2]>>] /\ mask.at[<<idx[1], idx[2]>>]])

\* rearrange(mask, 'b i -> b i ()') * rearrange(mask, 'b j -> b () j')
MaskPairs(mask) ==
    LET shape == <<mask.shape[1], mask.shape[2], mask.shape[2]>>
    IN  Tensor(shape,
               [idx \in Indices(shape) |->
                   mask.at[<<idx[1], idx[2]>>] /\ mask.at[<<idx[1], idx[3]>>]])

max_neg_value == -FloatMax

\* t.masked_fill(~mask, value): the tensor and the mask are broadcast to
\* their common shape.
masked_fill_not(t, mask, value) ==
    LET shape == BroadcastShapes(t.shape, mask.shape)
    IN  Tensor(shape,
               [idx \in Indices(shape) |->
                   IF ~BroadcastAt(mask, idx) THEN value ELSE BroadcastAt(t, idx)])

\* softmax with dim = -2: normalised over the queries instead of the keys.
softmax_dim_minus_2(t) ==
    LET n == t.shape[2]
        top == [bj \in Idx(t.shape[1]) \X Idx(t.shape[3]) |->
                   MaxTo([i \in Idx(n) |-> t.at[<<bj[1], i, bj[2]>>]], n)]
        e == [idx \in Indices(t.shape) |-> exp(t.at[idx] - top[<<idx[1], idx[3]>>])]
        total == [bj \in Idx(t.shape[1]) \X Idx(t.shape[3]) |->
                     SumTo([i \in Idx(n) |-> e[<<bj[1], i, bj[2]>>]], n)]
    IN  Tensor(t.shape,
               [idx \in Indices(t.shape) |-> Rat(e[idx], total[<<idx[1], idx[3]>>])])

\* t.softmax(dim = -1) of a tensor of shape (b, i, j)
softmax(t) ==
    LET n == t.shape[3]
        row(b, i) == [j \in Idx(n) |-> t.at[<<b, i, j>>]]
        top == [bi \in Idx(t.shape[1]) \X Idx(t.shape[2]) |->
                   MaxTo(row(bi[1], bi[2]), n)]
        e == [idx \in Indices(t.shape) |-> exp(t.at[idx] - top[<<idx[1], idx[2]>>])]
        total == [bi \in Idx(t.shape[1]) \X Idx(t.shape[2]) |->
                     SumTo([j \in Idx(n) |-> e[<<bi[1], bi[2], j>>]], n)]
    IN  Tensor(t.shape,
               [idx \in Indices(t.shape) |-> Rat(e[idx], total[<<idx[1], idx[2]>>])])

\* einsum('b i j, b j d -> b i d', attn, v); einsum broadcasts the axes of
\* size 1.
aggregate(attn, v) ==
    LET shape == <<BroadcastSize(attn.shape[1], v.shape[1]), attn.shape[2], v.shape[3]>>
        keys == BroadcastSize(attn.shape[3], v.shape[2])
    IN  Tensor(shape,
               [idx \in Indices(shape) |->
                   RatSumTo([j \in Idx(keys) |->
                                RatScale(BroadcastAt(attn, <<idx[1], idx[2], j>>),
                                         BroadcastAt(v, <<idx[1], j, idx[3]>>))],
                            keys)])

\* rearrange(attn, '(b h) i j -> b h i j', h = h)
attn_with_heads(attn, h) ==
    LET shape == <<attn.shape[1] \div h, h, attn.shape[2], attn.shape[3]>>
    IN  Tensor(shape,
               [idx \in Indices(shape) |->
                   attn.at[<<idx[1] * h + idx[2], idx[3], idx[4]>>]])

\* einsum('b h i j, b i j d -> b h i d', attn_with_heads, pairwise_repr)
aggregate_pairwise(attn, pairwise_repr) ==
    LET shape == <<BroadcastSize(attn.shape[1], pairwise_repr.shape[1]), attn.shape[2],
                   BroadcastSize(attn.shape[3], pairwise_repr.shape[2]),
                   pairwise_repr.shape[4]>>
        keys == BroadcastSize(attn.shape[4], pairwise_repr.shape[3])
    IN  Tensor(shape,
               [idx \in Indices(shape) |->
                   RatSumTo([j \in Idx(keys) |->
                                RatScale(BroadcastAt(attn, <<idx[1], idx[2], idx[3], j>>),
                                         BroadcastAt(pairwise_repr,
                                                     <<idx[1], idx[3], j, idx[4]>>))],
                            keys)])

\* einsum('b i j, b j d c -> b i d c', attn, v)
aggregate_points(attn, v) ==
    LET shape == <<BroadcastSize(attn.shape[1], v.shape[1]), attn.shape[2],
                   v.shape[3], v.shape[4]>>
        keys == BroadcastSize(attn.shape[3], v.shape[2])
    IN  Tensor(shape,
               [idx \in Indices(shape) |->
                   RatSumTo([j \in Idx(keys) |->
                                RatScale(BroadcastAt(attn, <<idx[1], idx[2], j>>),
                                         BroadcastAt(v, <<idx[1], j, idx[3], idx[4]>>))],
                            keys)])

\* rearrange(t, '(b h) n d -> b n (h d)', h = h)
MergeHeads(t, h) ==
    LET d == t.shape[3]
        shape == <<t.shape[1] \div h, t.shape[2], h * d>>
    IN  Tensor(shape,
               [idx \in Indices(shape) |->
                   t.at[<<idx[1] * h + (idx[3] \div d), idx[2], idx[3] % d>>]])

\* rearrange(t, 'b h n d -> b n (h d)', h = h)
MergeHeadsPairwise(t, h) ==
    LET d == t.shape[4]
        shape == <<t.shape[1], t.shape[3], h * d>>
    IN  Tensor(shape,
               [idx \in Indices(shape) |->
                   t.at[<<idx[1], idx[3] \div d, idx[2], idx[3] % d>>]])

\* rearrange(t, '(b h) n d c -> b n (h d c)', h = h)
MergeHeadsPoints(t, h) ==
    LET d == t.shape[3]
        c == t.shape[4]
        shape == <<t.shape[1] \div h, t.shape[2], h * d * c>>
    IN  Tensor(shape,
               [idx \in Indices(shape) |->
                   t.at[<<idx[1] * h + (idx[3] \div (d * c)), idx[2],
                          (idx[3] % (d * c)) \div c, idx[3] % c>>]])

\* torch.cat((s, p, t), dim = -1) of tensors of shape (b, n, .)
cat(s, p, t) ==
    LET shape == <<s.shape[1], s.shape[2], s.shape[3] + p.shape[3] + t.shape[3]>>
    IN  Tensor(shape,
               [idx \in Indices(shape) |->
                   IF idx[3] < s.shape[3] THEN s.at[idx]
                   ELSE IF idx[3] < s.shape[3] + p.shape[3]
                        THEN p.at[<<idx[1], idx[2], idx[3] - s.shape[3]>>]
                   ELSE t.at[<<idx[1], idx[2], idx[3] - s.shape[3] - p.shape[3]>>]])

\* self.to_out(results)
to_out(m, results) ==
    LET shape == <<results.shape[1], results.shape[2], m.dim>>
    IN  Tensor(shape,
               [idx \in Indices(shape) |->
                   RatAdd(RatSumTo([f \in Idx(results.shape[3]) |->
                                       RatScale(results.at[<<idx[1], idx[2], f>>],
                                                Weight(m, "to_out", idx[3], f))],
                                   results.shape[3]),
                          RatOfInt(Bias(m, "to_out", idx[3])))])

\* attn_logits_scalar + attn_logits_pairwise + attn_logits_points
attn_logits(scalar, pairwise, points) == Add(Add(scalar, pairwise), points)

\* The logits the softmax is taken of: lines 121 to 124.
masked_attn_logits(logits, mask) ==
    IF exists(mask)
    THEN masked_fill_not(logits, MaskPairs(mask[1]), max_neg_value)
    ELSE logits

\* torch.cat of the three merged streams: lines 132 to 147.
results(m, a, attn) ==
    cat(MergeHeads(aggregate(attn, v_scalar(m, a)), m.heads),
        MergeHeadsPairwise(aggregate_pairwise(attn_with_heads(attn, m.heads),
                                              a.pairwise_repr), m.heads),
        MergeHeadsPoints(aggregate_points(attn, v_point(m, a)), m.heads))

\* What forward leaves behind: the exception with the stages that ran, or
\* the returned tensor `out` with the point logits, the attention tensor
\* and the concatenated streams it was computed from.
forward(m, a) ==
    LET outcome == ForwardOutcome(m, a.single_repr.shape, a.pairwise_repr.shape,
                                  IF exists(a.mask) THEN Some(a.mask[1].shape) ELSE None)
    IN  IF outcome.status = "raised" THEN outcome
        ELSE LET scalar == attn_logits_scalar(m, q_scalar(m, a), k_scalar(m, a))
                 pairwise == attn_logits_pairwise(m, a)
                 points == attn_logits_points(
                               point_dist(point_qk_diff(q_point(m, a), k_point(m, a))),
                               point_weights(m, a.single_repr.shape[1]))
                 attn == softmax(masked_attn_logits(attn_logits(scalar, pairwise, points),
                                                    a.mask))
                 res == results(m, a, attn)
             IN  [ status |-> "returned",
                   line |-> 0,
                   stages |-> outcome.stages,
                   shape |-> outcome.shape,
                   attn_logits_points |-> points,
                   attn |-> attn,
                   results |-> res,
                   out |-> to_out(m, res) ]

\* ------------------------------------------------------------ the machine

NotConstructed == [status |-> "not_constructed"]

NoCall == [status |-> "no_call"]

\* Seeds of the random initialisation of the nn.Linear weights.
Seeds == 0..1

\* What __init__ leaves behind for the keyword arguments c: the exception, or
\* the object with its attributes; the nn.Linear parameters are those drawn
\* with `seed`, point_weights is the initial value of line 54, which
\* softplus maps to 1.
Build(c, seed) ==
    IF InitRaisesAt(c) # 0
    THEN [status |-> "raised", line |-> InitRaisesAt(c)]
    ELSE [status |-> "constructed",
          heads |-> c.heads,
          dim |-> c.dim,
          scalar_key_dim |-> c.scalar_key_dim,
          scalar_value_dim |-> c.scalar_value_dim,
          point_key_dim |-> c.point_key_dim,
          point_value_dim |-> c.point_value_dim,
          pairwise_repr_dim |-> default(c.pairwise_repr_dim, c.dim),
          seed |-> seed,
          point_weights |-> [h \in 0..(c.heads - 1) |-> 0]]

Construct ==
    /\ module = NotConstructed
    /\ \E seed \in Seeds : module' = Build(cfg, seed)
    /\ UNCHANGED <<cfg, args, ret>>

\* The shape of the mask of the call a, None without one.
MaskShape(a) == IF exists(a.mask) THEN Some(a.mask[1].shape) ELSE None

\* forward on shapes: args holds the shapes of single_repr and pairwise_repr
\* and, with a mask, the shape of the mask.
ForwardShapes ==
    /\ module.status = "constructed"
    /\ ret = NoCall
    /\ ret' = ForwardOutcome(module, args.single_repr.shape, args.pairwise_repr.shape,
                              MaskShape(args))
    /\ UNCHANGED <<cfg, module, args>>

\* Keyword arguments tried on the constructor, nonpositive ones included.
CfgValues == -1..MaxWidth

KeyValueDims == -1..1

WideConfigs ==
    [ dim : CfgValues, heads : -1..MaxHeads,
      scalar_key_dim : KeyValueDims, scalar_value_dim : KeyValueDims,
      point_key_dim : KeyValueDims, point_value_dim : KeyValueDims,
      pairwise_repr_dim : {None} \cup {Some(v) : v \in CfgValues} ]

\* Shapes tried on forward, consistent or not.
CallShapes ==
    [ single_repr : { [shape |-> <<b, n, d>>] :
                          b \in 1..MaxBatch, n \in 1..MaxEntities, d \in 1..MaxWidth },
      pairwise_repr : { [shape |-> <<b, n, n, p>>] :
                            b \in 1..MaxBatch, n \in 1..MaxEntities, p \in 1..MaxWidth },
      mask : {None} \cup { Some([shape |-> <<b, n>>]) :
                               b \in 1..MaxBatch, n \in 1..MaxEntities } ]

InitShapes ==
    /\ cfg \in WideConfigs
    /\ args \in CallShapes
    /\ module = NotConstructed
    /\ ret = NoCall

NextShapes == Construct \/ ForwardShapes

SpecShapes == InitShapes /\ [][NextShapes]_vars

\* External training step: the optimiser moves the nn.Parameter
\* point_weights away from its initial value, differently for each head
\* (before the call observed).
TrainSteps == {1}

Train ==
    /\ module.status = "constructed"
    /\ ret = NoCall
    /\ \E k \in TrainSteps :
           module' = [module EXCEPT
                        !.point_weights = [h \in Idx(module.heads) |-> (k + h) % 3]]
    /\ UNCHANGED <<cfg, args, ret>>

Forward ==
    /\ module.status = "constructed"
    /\ ret = NoCall
    /\ ret' = forward(module, args)
    /\ UNCHANGED <<cfg, module, args>>

\* Keyword arguments of the operators that are called, for each number of
\* heads: one with pairwise_repr_dim left to default to dim, one with its
\* own pairwise_repr_dim.
Configs ==
    UNION { { [ dim |-> 2, heads |-> h,
                scalar_key_dim |-> 2, scalar_value_dim |-> 1,
                point_key_dim |-> 1, point_value_dim |-> 2,
                pairwise_repr_dim |-> None ],
              [ dim |-> 2, heads |-> h,
                scalar_key_dim |-> 1, scalar_value_dim |-> 2,
                point_key_dim |-> 2, point_value_dim |-> 1,
                pairwise_repr_dim |-> Some(1) ] } : h \in 1..MaxHeads }

InputSeeds == 0..1

SingleRepr(b, n, d, seed) ==
    Tensor(<<b, n, d>>,
           [idx \in Indices(<<b, n, d>>) |->
               ((seed + idx[1] + 2 * idx[2] + idx[3] + idx[1] * idx[2]) % 3) - 1])

PairwiseRepr(b, n, d, seed) ==
    Tensor(<<b, n, n, d>>,
           [idx \in Indices(<<b, n, n, d>>) |->
               ((seed + 2 * idx[1] + idx[2] + 2 * idx[3] + idx[4]
                   + idx[2] * idx[3]) % 3) - 1])

\* Frames: the identity frame for seed 0, otherwise a cyclic permutation of
\* the axes and a translation, both different from entity to entity.
Rotations(b, n, seed) ==
    Tensor(<<b, n, 3, 3>>,
           [idx \in Indices(<<b, n, 3, 3>>) |->
               IF (idx[3] + seed * (1 + idx[2])) % 3 = idx[4] THEN 1 ELSE 0])

Translations(b, n, seed) ==
    Tensor(<<b, n, 3>>,
           [idx \in Indices(<<b, n, 3>>) |-> seed * (1 + idx[1] + 2 * idx[2] + idx[3])])

\* Masks of shape (b, n): in each batch element no entity, one entity or
\* every entity is invalid.
InvalidSets(n) == {{}} \cup { {j} : j \in Idx(n) } \cup {Idx(n)}

Masks(b, n) ==
    {None} \cup { Some(Tensor(<<b, n>>, [idx \in Indices(<<b, n>>) |-> idx[2] \notin inv[idx[1]]])) :
                    inv \in [Idx(b) -> InvalidSets(n)] }

\* Calls with consistent shapes for the keyword arguments c.
Inputs(c) ==
    UNION { { [ single_repr |-> SingleRepr(b, n, c.dim, s),
                pairwise_repr |-> PairwiseRepr(b, n, default(c.pairwise_repr_dim, c.dim), s),
                rotations |-> Rotations(b, n, s),
                translations |-> Translations(b, n, s),
                mask |-> mk ] :
              s \in InputSeeds, mk \in Masks(b, n) } :
            b \in 1..MaxBatch, n \in 1..MaxEntities }

Init ==
    /\ cfg \in Configs
    /\ args \in Inputs(cfg)
    /\ module = NotConstructed
    /\ ret = NoCall

Next == Construct \/ Train \/ Forward

Spec == Init /\ [][Next]_vars

\* ----------------------------------------------------- claims on the shapes

Called == ret.status # "no_call"

\* Every keyword argument of the constructor is positive.
PositiveConfig(c) ==
    /\ c.dim >= 1 /\ c.heads >= 1
    /\ c.scalar_key_dim >= 1 /\ c.scalar_value_dim >= 1
    /\ c.point_key_dim >= 1 /\ c.point_value_dim >= 1
    /\ default(c.pairwise_repr_dim, c.dim) >= 1

\* The inputs of the call a agree on the batch size, the entity count and
\* the feature widths the constructor was given.
ConsistentShapes(c, a) ==
    LET xs == a.single_repr.shape
        ps == a.pairwise_repr.shape
    IN  /\ xs[3] = c.dim
        /\ ps = <<xs[1], xs[2], xs[2], default(c.pairwise_repr_dim, c.dim)>>
        /\ exists(a.mask) => a.mask[1].shape = <<xs[1], xs[2]>>

\* C1: a call with consistent shapes on an operator with positive
\* configuration returns, and returns a tensor of shape (B, N, dim), for
\* every B and heads, with or without a mask.
C1_ForwardReturnsShape ==
    (Called /\ PositiveConfig(cfg) /\ ConsistentShapes(cfg, args))
        => /\ ret.status = "returned"
           /\ ret.shape = <<args.single_repr.shape[1], args.single_repr.shape[2], cfg.dim>>

\* The calls C1 fails on are exactly those with a mask, more than one batch
\* element and more than one head: they raise at line 124.
ForwardRaisesOnlyOnBatchedMultiHeadMask ==
    (Called /\ PositiveConfig(cfg) /\ ConsistentShapes(cfg, args))
        => IF exists(args.mask) /\ args.single_repr.shape[1] > 1 /\ cfg.heads > 1
           THEN ret.status = "raised" /\ ret.line = 124
           ELSE /\ ret.status = "returned"
                /\ ret.shape = <<args.single_repr.shape[1],
                                 args.single_repr.shape[2], cfg.dim>>

\* C7: a call whose inputs disagree on a shared axis raises before any stage
\* of forward has run.
C7_MismatchFailsBeforeAnyStage ==
    (Called /\ PositiveConfig(cfg) /\ ~ConsistentShapes(cfg, args))
        => ret.status = "raised" /\ ret.stages = {}

\* C8: the constructor raises for every configuration with a nonpositive
\* value: no object is returned for one.
C8_NonpositiveConfigRaises ==
    (module.status # "not_constructed" /\ ~PositiveConfig(cfg))
        => module.status = "raised"

\* ----------------------------------------------------- claims on the values

Returned == ret.status = "returned"

\* The batch element of row bh of a tensor whose first axis is '(b h)'.
BatchOf(bh) == bh \div module.heads

HeadOf(bh) == bh % module.heads

\* Entity n of batch element b is valid in the call's mask.
Valid(b, n) == args.mask[1].at[<<b, n>>]

AttnRows == Idx(ret.attn.shape[1]) \X Idx(ret.attn.shape[2])

AttnRow(bh, i) == [j \in Idx(ret.attn.shape[3]) |-> ret.attn.at[<<bh, i, j>>]]

\* C2: every row of the attention tensor, over the keys, has weights >= 0
\* that sum to 1, with or without a mask, rows of masked queries included.
C2_AttentionRowsSumToOne ==
    Returned =>
        \A r \in AttnRows :
            /\ \A j \in Idx(ret.attn.shape[3]) :
                   AttnRow(r[1], r[2])[j].n >= 0 /\ AttnRow(r[1], r[2])[j].d > 0
            /\ RatSumTo(AttnRow(r[1], r[2]), ret.attn.shape[3]) = RatOfInt(1)

\* A call with a mask returned; one query is masked (every key of its row
\* is), and some row shares its weight unevenly between its keys.
C2_Witness ==
    /\ Returned /\ exists(args.mask)
    /\ \E r \in AttnRows : ~Valid(BatchOf(r[1]), r[2])
    /\ \E r \in AttnRows : \E j \in Idx(ret.attn.shape[3]) :
           /\ AttnRow(r[1], r[2])[j].n > 0
           /\ 2 * AttnRow(r[1], r[2])[j].n < AttnRow(r[1], r[2])[j].d

\* The weight w is negligible against the weight top: at most the machine
\* epsilon of float32, 2 ** -23, times top.
Negligible(w, top) ==
    w.n * top.d = 0 \/ (top.n * w.d) \div (w.n * top.d) >= Pow2(23)

NegligibleInRow(bh, i, j) ==
    \E k \in Idx(ret.attn.shape[3]) :
        Negligible(ret.attn.at[<<bh, i, j>>], ret.attn.at[<<bh, i, k>>])

\* C3 as claimed: with a mask, the weight from every query i, valid or
\* masked, to a masked key j is negligible against the largest of row i.
C3_MaskedKeyNegligibleForEveryQuery ==
    (Returned /\ exists(args.mask)) =>
        \A r \in AttnRows : \A j \in Idx(ret.attn.shape[3]) :
            ~Valid(BatchOf(r[1]), j) => NegligibleInRow(r[1], r[2], j)

\* C3 amended: with a mask, the weight from every valid query i to a masked
\* key j is negligible against the largest of row i, in every head.
C3_MaskedKeyNegligibleForValidQuery ==
    (Returned /\ exists(args.mask)) =>
        \A r \in AttnRows : \A j \in Idx(ret.attn.shape[3]) :
            (Valid(BatchOf(r[1]), r[2]) /\ ~Valid(BatchOf(r[1]), j))
                => NegligibleInRow(r[1], r[2], j)

\* A call on two heads returned whose mask has a valid query and a masked
\* key in the same batch element.
C3_Witness ==
    /\ Returned /\ exists(args.mask) /\ module.heads > 1
    /\ \E r \in AttnRows : \E j \in Idx(ret.attn.shape[3]) :
           /\ Valid(BatchOf(r[1]), r[2]) /\ ~Valid(BatchOf(r[1]), j)
           /\ ret.attn.at[<<r[1], r[2], j>>] = RatOfInt(0)

\* The squared distance between the points of query i and key j in row bh,
\* summed over the points and the 3 axes.
PointDistance(bh, i, j) ==
    LET q == q_point(module, args)
        k == k_point(module, args)
    IN  SumTo([dc \in Idx(q.shape[3] * 3) |->
                  (q.at[<<bh, i, dc \div 3, dc % 3>>] - k.at[<<bh, j, dc \div 3, dc % 3>>])
                    * (q.at[<<bh, i, dc \div 3, dc % 3>>]
                         - k.at[<<bh, j, dc \div 3, dc % 3>>])],
              q.shape[3] * 3)

\* C5: the point logit is -0.5 * scale_p * precision_h * D(i, j); in fixed
\* point, twice the logit is -(scale_p * precision_h * D(i, j)), to within
\* the rounding of scale_p to a fixed-point unit.
C5_PointLogitScaled ==
    Returned =>
        \A idx \in Indices(ret.attn_logits_points.shape) :
            LET s == point_attn_logits_scale(module)
                x == softplus(module.point_weights[HeadOf(idx[1])])
                       * PointDistance(idx[1], idx[2], idx[3])
            IN  Abs(2 * ret.attn_logits_points.at[idx] + InvSqrtFix(s.n, s.d) * x) <= x

\* What the code computes: the same without the factor scale_p.
PointLogitUnscaled ==
    Returned =>
        \A idx \in Indices(ret.attn_logits_points.shape) :
            2 * ret.attn_logits_points.at[idx] =
                -(FixOne
                    * softplus(module.point_weights[HeadOf(idx[1])])
                    * PointDistance(idx[1], idx[2], idx[3]))

\* The permutations of the entities 0 .. n - 1.
Perms(n) == { p \in [Idx(n) -> Idx(n)] : \A i, j \in Idx(n) : i # j => p[i] # p[j] }

\* The call a with entity p[i] put at position i of every entity axis.
PermuteArgs(a, p) ==
    [ single_repr |->
          Tensor(a.single_repr.shape,
                 [idx \in Indices(a.single_repr.shape) |->
                     a.single_repr.at[<<idx[1], p[idx[2]], idx[3]>>]]),
      pairwise_repr |->
          Tensor(a.pairwise_repr.shape,
                 [idx \in Indices(a.pairwise_repr.shape) |->
                     a.pairwise_repr.at[<<idx[1], p[idx[2]], p[idx[3]], idx[4]>>]]),
      rotations |->
          Tensor(a.rotations.shape,
                 [idx \in Indices(a.rotations.shape) |->
                     a.rotations.at[<<idx[1], p[idx[2]], idx[3], idx[4]>>]]),
      translations |->
          Tensor(a.translations.shape,
                 [idx \in Indices(a.translations.shape) |->
                     a.translations.at[<<idx[1], p[idx[2]], idx[3]>>]]),
      mask |->
          IF exists(a.mask)
          THEN Some(Tensor(a.mask[1].shape,
                           [idx \in Indices(a.mask[1].shape) |->
                               a.mask[1].at[<<idx[1], p[idx[2]]>>]]))
          ELSE None ]

\* C6: for every permutation p of the entities, the call on the permuted
\* inputs ends as the call did (returns, or raises at the same line) and
\* returns the call's output with its entity axis permuted by p.
C6_PermutationEquivariant ==
    Called =>
        \A p \in Perms(args.single_repr.shape[2]) :
            LET permuted == forward(module, PermuteArgs(args, p))
            IN  /\ permuted.status = ret.status
                /\ permuted.line = ret.line
                /\ Returned =>
                       permuted.out.at =
                           [idx \in Indices(ret.out.shape) |->
                               ret.out.at[<<idx[1], p[idx[2]], idx[3]>>]]

\* A call on several entities returned, with a mask that tells them apart
\* and an output that differs between two entities of a batch element.
C6_Witness ==
    /\ Returned /\ exists(args.mask) /\ args.single_repr.shape[2] >= 2
    /\ Valid(0, 0) # Valid(0, 1)
    /\ \E o \in Idx(ret.out.shape[3]) : ret.out.at[<<0, 0, o>>] # ret.out.at[<<0, 1, o>>]

\* Frames tried in place of the call's.
FrameSeeds == 0..2

WithFrames(a, seed) ==
    [a EXCEPT !.rotations = Rotations(a.single_repr.shape[1], a.single_repr.shape[2], seed),
              !.translations = Translations(a.single_repr.shape[1],
                                            a.single_repr.shape[2], seed)]

\* C10: the call with any other rotations and translations, everything else
\* the same, ends as the call did and returns the same output.
C10_FramesNeverApplied ==
    Called => \A seed \in FrameSeeds : forward(module, WithFrames(args, seed)) = ret

\* A call with frames other than the identity returned, and its point logits
\* are not all zero.
C10_Witness ==
    /\ Returned
    /\ args.rotations # Rotations(args.single_repr.shape[1], args.single_repr.shape[2], 0)
    /\ \E idx \in Indices(args.translations.shape) : args.translations.at[idx] # 0
    /\ \E idx \in Indices(ret.attn_logits_points.shape) :
           ret.attn_logits_points.at[idx] # 0

\* ---- head by head: what (batch b, head h) computes from its own slices

\* Head h's slice of width `width` of the projection `name` of entity n of
\* batch element b.
HeadScalar(name, width, b, h, n) ==
    [d \in Idx(width) |->
        SumTo([f \in Idx(module.dim) |->
                  args.single_repr.at[<<b, n, f>>]
                    * Weight(module, name, h * width + d, f)], module.dim)]

\* Head h's `width` points of the projection `name` of entity n of batch b.
HeadPoints(name, width, b, h, n) ==
    [dc \in Idx(width) \X Idx(3) |->
        SumTo([f \in Idx(module.dim) |->
                  args.single_repr.at[<<b, n, f>>]
                    * Weight(module, name, (h * width + dc[1]) * 3 + dc[2], f)],
              module.dim)]

\* Channel h of the pairwise bias of the pair (i, j) of batch element b.
HeadBias(b, h, i, j) ==
    SumTo([f \in Idx(module.pairwise_repr_dim) |->
              args.pairwise_repr.at[<<b, i, j, f>>]
                * Weight(module, "to_pairwise_attn_bias", h, f)],
          module.pairwise_repr_dim)
      + Bias(module, "to_pairwise_attn_bias", h)

HeadLogit(b, h, i, j) ==
    LET q == HeadScalar("to_scalar_q", module.scalar_key_dim, b, h, i)
        k == HeadScalar("to_scalar_k", module.scalar_key_dim, b, h, j)
        qp == HeadPoints("to_point_q", module.point_key_dim, b, h, i)
        kp == HeadPoints("to_point_k", module.point_key_dim, b, h, j)
        dist == SumTo([c \in Idx(3) |->
                          SumTo([d \in Idx(module.point_key_dim) |->
                                    (qp[<<d, c>>] - kp[<<d, c>>])
                                      * (qp[<<d, c>>] - kp[<<d, c>>])],
                                module.point_key_dim)], 3)
    IN  IF exists(args.mask) /\ ~(Valid(b, i) /\ Valid(b, j))
        THEN max_neg_value
        ELSE TimesInvSqrt(SumTo([d \in Idx(module.scalar_key_dim) |-> q[d] * k[d]],
                                module.scalar_key_dim),
                          scalar_attn_logits_scale(module))
               + TimesInvSqrt(HeadBias(b, h, i, j), pairwise_attn_logits_scale)
               - ((FixOne * softplus(module.point_weights[h]) * dist) \div 2)

\* The attention row of query i of (batch b, head h).
HeadAttn(b, h, i) ==
    LET n == args.single_repr.shape[2]
        logit == [j \in Idx(n) |-> HeadLogit(b, h, i, j)]
        e == [j \in Idx(n) |-> exp(logit[j] - MaxTo(logit, n))]
    IN  [j \in Idx(n) |-> Rat(e[j], SumTo(e, n))]

\* C9: row (b * heads + h) of the attention tensor is the attention computed
\* from batch b's head-h slices, channel h of the bias and point_weights[h]
\* alone, and head h's slots of the concatenated vector hold the scalar,
\* pairwise and point values aggregated with that row.
C9_HeadsNeverMixed ==
    Returned =>
        \A b \in Idx(args.single_repr.shape[1]), h \in Idx(module.heads),
           i \in Idx(args.single_repr.shape[2]) :
            LET n == args.single_repr.shape[2]
                a == HeadAttn(b, h, i)
                sv == module.scalar_value_dim
                pr == module.pairwise_repr_dim
                pv == module.point_value_dim
                v == [j \in Idx(n) |-> HeadScalar("to_scalar_v", sv, b, h, j)]
                vp == [j \in Idx(n) |-> HeadPoints("to_point_v", pv, b, h, j)]
            IN  /\ \A j \in Idx(n) : ret.attn.at[<<b * module.heads + h, i, j>>] = a[j]
                /\ \A d \in Idx(sv) :
                       ret.results.at[<<b, i, h * sv + d>>]
                         = RatSumTo([j \in Idx(n) |-> RatScale(a[j], v[j][d])], n)
                /\ \A d \in Idx(pr) :
                       ret.results.at[<<b, i, module.heads * sv + h * pr + d>>]
                         = RatSumTo([j \in Idx(n) |->
                                        RatScale(a[j], args.pairwise_repr.at[<<b, i, j, d>>])],
                                    n)
                /\ \A d \in Idx(pv), c \in Idx(3) :
                       ret.results.at[<<b, i, module.heads * (sv + pr)
                                               + (h * pv + d) * 3 + c>>]
                         = RatSumTo([j \in Idx(n) |-> RatScale(a[j], vp[j][<<d, c>>])], n)

\* A call on two batch elements returned from an operator with two heads of
\* different precision, and its attention differs both between the heads of
\* a batch element and between the batch elements of a head.
C9_Witness ==
    /\ Returned /\ module.heads >= 2 /\ args.single_repr.shape[1] >= 2
    /\ module.point_weights[0] # module.point_weights[1]
    /\ \E i, j \in Idx(args.single_repr.shape[2]) :
           /\ ret.attn.at[<<0, i, j>>] # ret.attn.at[<<1, i, j>>]
           /\ ret.attn.at[<<0, i, j>>] # ret.attn.at[<<module.heads, i, j>>]

\* ---- masking: the call restricted to the valid entities

\* The number of valid entities of batch element b below entity i.
Rank(b, i) == Cardinality({ j \in Idx(i) : Valid(b, j) })

\* The valid entities of batch element b, in order.
Keep(b) ==
    [r \in Idx(Rank(b, args.single_repr.shape[2])) |->
        CHOOSE i \in Idx(args.single_repr.shape[2]) : Valid(b, i) /\ Rank(b, i) = r]

\* Batch element b of the call alone, its masked entities deleted from every
\* entity axis, and no mask.
Restrict(a, b) ==
    LET keep == Keep(b)
        k == Rank(b, a.single_repr.shape[2])
        single == <<1, k, a.single_repr.shape[3]>>
        pair == <<1, k, k, a.pairwise_repr.shape[4]>>
    IN  [ single_repr |->
              Tensor(single, [idx \in Indices(single) |->
                                 a.single_repr.at[<<b, keep[idx[2]], idx[3]>>]]),
          pairwise_repr |->
              Tensor(pair, [idx \in Indices(pair) |->
                               a.pairwise_repr.at[<<b, keep[idx[2]], keep[idx[3]], idx[4]>>]]),
          rotations |->
              Tensor(<<1, k, 3, 3>>,
                     [idx \in Indices(<<1, k, 3, 3>>) |->
                         a.rotations.at[<<b, keep[idx[2]], idx[3], idx[4]>>]]),
          translations |->
              Tensor(<<1, k, 3>>,
                     [idx \in Indices(<<1, k, 3>>) |->
                         a.translations.at[<<b, keep[idx[2]], idx[3]>>]]),
          mask |-> None ]

\* The call with the values of its masked entities replaced by those of the
\* inputs of another seed.
Scramble(a, seed) ==
    LET single == SingleRepr(a.single_repr.shape[1], a.single_repr.shape[2],
                             a.single_repr.shape[3], seed)
        pair == PairwiseRepr(a.pairwise_repr.shape[1], a.pairwise_repr.shape[2],
                             a.pairwise_repr.shape[4], seed)
    IN  [a EXCEPT
            !.single_repr =
                Tensor(a.single_repr.shape,
                       [idx \in Indices(a.single_repr.shape) |->
                           IF Valid(idx[1], idx[2]) THEN a.single_repr.at[idx]
                           ELSE single.at[idx]]),
            !.pairwise_repr =
                Tensor(a.pairwise_repr.shape,
                       [idx \in Indices(a.pairwise_repr.shape) |->
                           IF Valid(idx[1], idx[2]) /\ Valid(idx[1], idx[3])
                           THEN a.pairwise_repr.at[idx]
                           ELSE pair.at[idx]])]

\* The output rows of the valid entities are those of the restricted call
\* and do not change with the values of the masked entities.
ValidRowsAsRestricted ==
    /\ \A b \in Idx(args.single_repr.shape[1]) :
           Rank(b, args.single_repr.shape[2]) > 0 =>
               LET restricted == forward(module, Restrict(args, b))
               IN  /\ restricted.status = "returned"
                   /\ \A i \in Idx(args.single_repr.shape[2]), o \in Idx(module.dim) :
                          Valid(b, i) =>
                              ret.out.at[<<b, i, o>>]
                                = restricted.out.at[<<0, Rank(b, i), o>>]
    /\ \A seed \in InputSeeds :
           LET other == forward(module, Scramble(args, seed))
           IN  /\ other.status = "returned"
               /\ \A b \in Idx(args.single_repr.shape[1]),
                     i \in Idx(args.single_repr.shape[2]), o \in Idx(module.dim) :
                      Valid(b, i) => other.out.at[<<b, i, o>>] = ret.out.at[<<b, i, o>>]

\* C4: a call with a mask returns, and the output row of every valid entity
\* is the row the entity gets from the call restricted to the valid
\* entities; the values of the masked entities have no effect on it.
C4_MaskingRemovesInfluence ==
    Called /\ exists(args.mask) => Returned /\ ValidRowsAsRestricted

\* Whenever a call with a mask does return, its valid rows are those of the
\* restricted call: the exception at line 124 is the only way C4 fails.
MaskedRowsAsRestrictedWhenReturned ==
    Returned /\ exists(args.mask) => ValidRowsAsRestricted

\* A call with a mask that leaves a valid and a masked entity returned.
MaskedCallReturned ==
    /\ Returned /\ exists(args.mask)
    /\ \E i, j \in Idx(args.single_repr.shape[2]) : Valid(0, i) /\ ~Valid(0, j)

====
